---- MODULE Spec2Model ----
(***************************************************************************)
(* A model of the Agent Memory System: the Issue entity (src/issue.py),    *)
(* the IssueStore persistence layer (src/storage.py) and the commands of   *)
(* the CLI (src/cli.py).                                                   *)
(*                                                                         *)
(* The disk is the .ams directory: whether it exists, the lines of         *)
(* issues.jsonl and the content of meta.json.  Every command is one        *)
(* synchronous step of a single process, but in SpecRace, where two        *)
(* processes run store methods whose file reads and writes interleave.     *)
(***************************************************************************)
EXTENDS Integers, Sequences, FiniteSets, TLC

VARIABLES
    root,        \* TRUE when the .ams directory exists
    issuesFile,  \* the lines of issues.jsonl (an absent file reads as no lines)
    metaFile,    \* the content of meta.json
    clock,       \* the wall clock's reading, what datetime.now returns
    calls,       \* ghost: how many get_next_id calls have returned
    left,        \* how many operations may still run (None: any number)
    last,        \* what the last operation reported to its caller
    procs        \* SpecRace: where each process is in its method call

vars == <<root, issuesFile, metaFile, clock, calls, left, last, procs>>

---------------------------------------------------------------------------
(* Bounds of the model.                                                    *)

\* get_next_id is not called once the counter has passed MaxId.
MaxId == 2
\* The wall clock reads 1..MaxTime.
MaxTime == 2
\* The longest --blocked-by / --add-blocker / --remove-blocker tuple.
MaxBlockers == 2
\* The longest issue log of arbitrary lines SpecDisk starts from.
MaxLines == 2
\* The operations SpecDisk runs on the disk it starts from.
MaxSteps == 2

Times == 1..MaxTime
Ids == 1..MaxId

---------------------------------------------------------------------------
(* Python values.  An optional value (None or x) is <<>> or <<x>>.          *)

None == <<>>
Some(x) == <<x>>

\* x = v, then F(x): v is computed once, as an assignment computes it.
Bind(v, F(_)) == CHOOSE r \in {F(x) : x \in {v}} : TRUE

\* The outcome of a call: the exception raised ("none" when it returned),
\* the line number a StorageError names, and the value returned.
Ok(v) == [exc |-> "none", line |-> 0, ret |-> v]
Raise(e, n) == [exc |-> e, line |-> n, ret |-> <<>>]

\* set(seq)
SetOf(s) == {s[i] : i \in 1..Len(s)}

\* JSON values, as json.loads returns them.
JNull == [j |-> "null"]
JInt(n) == [j |-> "int", n |-> n]
JStr(s) == [j |-> "str", s |-> s]
JArr(a) == [j |-> "arr", a |-> a]
JObj(d) == [j |-> "obj", d |-> d]

\* A line of issues.jsonl: blank, text that is no JSON, or a JSON value.
BlankLine == [kind |-> "blank"]
GarbageLine == [kind |-> "garbage"]
JsonLine(v) == [kind |-> "json", v |-> v]

json_loads(line) ==
    IF line.kind = "json" THEN Ok(line.v) ELSE Raise("JSONDecodeError", 0)

---------------------------------------------------------------------------
(* src/issue.py                                                            *)

OPEN == "OPEN"
IN_PROGRESS == "IN_PROGRESS"
DONE == "DONE"
StatusMembers == {OPEN, IN_PROGRESS, DONE}

\* Status.value
StatusValue(m) ==
    CASE m = OPEN -> "open"
      [] m = IN_PROGRESS -> "in-progress"
      [] m = DONE -> "done"

\* Status(v): the member whose value is v, ValueError when there is none.
Status(v) ==
    IF v.j = "str" /\ \E m \in StatusMembers : StatusValue(m) = v.s
    THEN Ok(CHOOSE m \in StatusMembers : StatusValue(m) = v.s)
    ELSE Raise("ValueError", 0)

\* The ISO-8601 text of each clock reading, with its UTC offset.
IsoText == [t \in Times |-> "2026-01-01T00:00:0" \o ToString(t) \o "+00:00"]

\* datetime.isoformat() of the UTC reading t.
isoformat(t) == IsoText[t]

\* datetime.fromisoformat(v)
fromisoformat(v) ==
    IF v.j # "str" THEN Raise("TypeError", 0)
    ELSE IF \E t \in Times : isoformat(t) = v.s
    THEN Ok(CHOOSE t \in Times : isoformat(t) = v.s)
    ELSE Raise("ValueError", 0)

\* The dataclass.
Issue(id, title, description, status, created_at, updated_at, blocked_by) ==
    [id |-> id, title |-> title, description |-> description,
     status |-> status, created_at |-> created_at,
     updated_at |-> updated_at, blocked_by |-> blocked_by]

\* validate_blocked_by gone wrong: the issue's own id is let through.
validate_blocked_by_allowing_self(issue, existing_ids) ==
    IF SetOf(issue.blocked_by) \ existing_ids # {} THEN Raise("ValueError", 0)
    ELSE Ok(issue)

\* Yields the issue as the call leaves it.
validate_blocked_by(issue, existing_ids) ==
    IF SetOf(issue.blocked_by) \ existing_ids # {} THEN Raise("ValueError", 0)
    ELSE IF issue.id \in SetOf(issue.blocked_by) THEN Raise("ValueError", 0)
    ELSE Ok(issue)

\* to_dict gone wrong: the status is written by its name.
to_dict_naming_status(issue) ==
    JObj([id |-> JInt(issue.id),
          title |-> JStr(issue.title),
          description |-> IF issue.description = None THEN JNull
                          ELSE JStr(issue.description[1]),
          status |-> JStr(issue.status),
          created_at |-> JStr(isoformat(issue.created_at)),
          updated_at |-> JStr(isoformat(issue.updated_at)),
          blocked_by |-> JArr(issue.blocked_by)])

to_dict(issue) ==
    JObj([id |-> JInt(issue.id),
          title |-> JStr(issue.title),
          description |-> IF issue.description = None THEN JNull
                          ELSE JStr(issue.description[1]),
          status |-> JStr(StatusValue(issue.status)),
          created_at |-> JStr(isoformat(issue.created_at)),
          updated_at |-> JStr(isoformat(issue.updated_at)),
          blocked_by |-> JArr(issue.blocked_by)])

\* data.get("description"): None for a missing key and for JSON null.
get_description(d) ==
    IF "description" \notin DOMAIN d THEN None
    ELSE IF d["description"].j = "null" THEN None
    ELSE Some(d["description"].s)

\* data.get("blocked_by", [])
get_blocked_by(d) ==
    IF "blocked_by" \notin DOMAIN d THEN <<>> ELSE d["blocked_by"].a

\* from_dict evaluates its arguments left to right: the first one that
\* raises decides the exception.
from_dict(data) ==
    IF data.j # "obj" THEN Raise("TypeError", 0)
    ELSE IF "id" \notin DOMAIN data.d THEN Raise("KeyError", 0)
    ELSE IF "title" \notin DOMAIN data.d THEN Raise("KeyError", 0)
    ELSE IF "status" \notin DOMAIN data.d THEN Raise("KeyError", 0)
    ELSE Bind(Status(data.d["status"]), LAMBDA status :
    IF status.exc # "none" THEN status
    ELSE IF "created_at" \notin DOMAIN data.d THEN Raise("KeyError", 0)
    ELSE Bind(fromisoformat(data.d["created_at"]), LAMBDA created_at :
    IF created_at.exc # "none" THEN created_at
    ELSE IF "updated_at" \notin DOMAIN data.d THEN Raise("KeyError", 0)
    ELSE Bind(fromisoformat(data.d["updated_at"]), LAMBDA updated_at :
    IF updated_at.exc # "none" THEN updated_at
    ELSE Ok(Issue(data.d["id"].n, data.d["title"].s, get_description(data.d),
                  status.ret, created_at.ret, updated_at.ret,
                  get_blocked_by(data.d))))))

\* Issue.create: status open, both timestamps now.
Issue_create(id, title, description, blocked_by, now) ==
    Issue(id, title, description, OPEN, now, now, blocked_by)

---------------------------------------------------------------------------
(* src/storage.py.  A store operation takes the disk d = [root, issues,    *)
(* meta] and yields the disk it leaves with the outcome of the call.       *)

VERSION == "1.0"

\* meta.json: absent, text that is no JSON, or a JSON value.
AbsentFile == [kind |-> "absent"]
GarbageFile == [kind |-> "garbage"]
JsonFile(v) == [kind |-> "json", v |-> v]

Disk(r, i, m) == [root |-> r, issues |-> i, meta |-> m]

Out(d, r) == [disk |-> d, exc |-> r.exc, line |-> r.line, ret |-> r.ret]

\* json.dump(data, f) over whatever meta.json held.
_write_meta(d, data) == [d EXCEPT !.meta = JsonFile(data)]

\* init gone wrong: meta.json is written whether or not it is there.
init_overwriting(d) ==
    _write_meta([d EXCEPT !.root = TRUE],
                JObj([next_id |-> JInt(1), version |-> JStr(VERSION)]))

\* mkdir(exist_ok); touch issues.jsonl if absent; write meta.json if absent.
init(d) ==
    IF d.meta.kind = "absent"
    THEN _write_meta([d EXCEPT !.root = TRUE],
                     JObj([next_id |-> JInt(1), version |-> JStr(VERSION)]))
    ELSE [d EXCEPT !.root = TRUE]

_ensure_initialized(d) == IF ~d.root THEN init(d) ELSE d

\* open() of an absent meta.json raises FileNotFoundError, which the
\* except clause (json.JSONDecodeError only) lets through.
_read_meta(d) ==
    Bind(_ensure_initialized(d), LAMBDA d1 :
    CASE d1.meta.kind = "absent" -> Out(d1, Raise("FileNotFoundError", 0))
      [] d1.meta.kind = "garbage" -> Out(d1, Raise("StorageError", 0))
      [] OTHER -> Out(d1, Ok(d1.meta.v)))

\* get_next_id gone wrong: the counter is advanced first and the advanced
\* value returned.
get_next_id_returning_advanced(d) ==
    Bind(_read_meta(d), LAMBDA r :
    IF r.exc # "none" THEN r
    ELSE IF r.ret.j # "obj" THEN Out(r.disk, Raise("TypeError", 0))
    ELSE IF "next_id" \notin DOMAIN r.ret.d
    THEN Out(r.disk, Raise("KeyError", 0))
    ELSE IF r.ret.d["next_id"].j # "int"
    THEN Out(r.disk, Raise("TypeError", 0))
    ELSE Bind(r.ret.d["next_id"].n + 1, LAMBDA next_id :
         Out(_write_meta(r.disk,
                 JObj([r.ret.d EXCEPT !["next_id"] = JInt(next_id)])),
             Ok(next_id))))

\* get_next_id gone wrong: the advanced counter is never written back.
get_next_id_not_persisted(d) ==
    Bind(_read_meta(d), LAMBDA r :
    IF r.exc # "none" THEN r
    ELSE IF r.ret.j # "obj" THEN Out(r.disk, Raise("TypeError", 0))
    ELSE IF "next_id" \notin DOMAIN r.ret.d
    THEN Out(r.disk, Raise("KeyError", 0))
    ELSE IF r.ret.d["next_id"].j # "int"
    THEN Out(r.disk, Raise("TypeError", 0))
    ELSE Out(r.disk, Ok(r.ret.d["next_id"].n)))

\* meta["next_id"] on what json.load returned, then next_id + 1.
get_next_id(d) ==
    Bind(_read_meta(d), LAMBDA r :
    IF r.exc # "none" THEN r
    ELSE IF r.ret.j # "obj" THEN Out(r.disk, Raise("TypeError", 0))
    ELSE IF "next_id" \notin DOMAIN r.ret.d
    THEN Out(r.disk, Raise("KeyError", 0))
    ELSE IF r.ret.d["next_id"].j # "int"
    THEN Out(r.disk, Raise("TypeError", 0))
    ELSE Bind(r.ret.d["next_id"].n, LAMBDA next_id :
         Out(_write_meta(r.disk,
                 JObj([r.ret.d EXCEPT !["next_id"] = JInt(next_id + 1)])),
             Ok(next_id))))

\* The loop of load_all from line line_num on, issues being those loaded
\* so far.  JSONDecodeError, KeyError and ValueError become StorageError
\* with the line number; any other exception leaves load_all as it is.
RECURSIVE load_lines(_, _, _)
load_lines(lines, line_num, issues) ==
    IF line_num > Len(lines) THEN Ok(issues)
    ELSE IF lines[line_num].kind = "blank"
    THEN load_lines(lines, line_num + 1, issues)
    ELSE Bind(json_loads(lines[line_num]), LAMBDA data :
    IF data.exc = "JSONDecodeError" THEN Raise("StorageError", line_num)
    ELSE Bind(from_dict(data.ret), LAMBDA issue :
    IF issue.exc \in {"KeyError", "ValueError"}
    THEN Raise("StorageError", line_num)
    ELSE IF issue.exc # "none" THEN Raise(issue.exc, 0)
    ELSE load_lines(lines, line_num + 1, Append(issues, issue.ret))))

load_all(d) ==
    Bind(_ensure_initialized(d), LAMBDA d1 :
    IF d1.issues = <<>> THEN Out(d1, Ok(<<>>))
    ELSE Out(d1, load_lines(d1.issues, 1, <<>>)))

\* _write_all gone wrong: the file is opened for appending.
_write_all_appending(d, issues) ==
    [d EXCEPT !.issues =
        @ \o [i \in 1..Len(issues) |-> JsonLine(to_dict(issues[i]))]]

\* One line per issue, the file truncated first.
_write_all(d, issues) ==
    [d EXCEPT !.issues =
        [i \in 1..Len(issues) |-> JsonLine(to_dict(issues[i]))]]

\* The index of the first entry with this id, 0 when there is none.
existing_idx(issues, id) ==
    IF \E i \in 1..Len(issues) : issues[i].id = id
    THEN CHOOSE i \in 1..Len(issues) :
            /\ issues[i].id = id
            /\ \A k \in 1..(i - 1) : issues[k].id # id
    ELSE 0

\* save_issue gone wrong: the issue is appended whether or not the log
\* holds its id.
put_issue_appending(issues, issue) == Append(issues, issue)

\* save_issue gone wrong: an entry that is replaced moves to the end.
put_issue_moving_last(issues, issue) ==
    Append(SelectSeq(issues, LAMBDA i : i.id # issue.id), issue)

\* save_issue gone wrong: a new issue goes to the head of the log.
put_issue_prepending(issues, issue) ==
    Bind(existing_idx(issues, issue.id), LAMBDA idx :
    IF idx # 0 THEN [issues EXCEPT ![idx] = issue]
    ELSE <<issue>> \o issues)

\* The in-memory part of save_issue: replace the entry or append.
put_issue(issues, issue) ==
    Bind(existing_idx(issues, issue.id), LAMBDA idx :
    IF idx # 0 THEN [issues EXCEPT ![idx] = issue]
    ELSE Append(issues, issue))

save_issue(d, issue) ==
    Bind(load_all(_ensure_initialized(d)), LAMBDA r :
    IF r.exc # "none" THEN r
    ELSE Out(_write_all(r.disk, put_issue(r.ret, issue)), Ok(<<>>)))

\* get_by_id gone wrong: an id the log does not hold yields the first
\* issue.
get_by_id_defaulting(d, id) ==
    Bind(load_all(d), LAMBDA r :
    IF r.exc # "none" THEN r
    ELSE Bind(existing_idx(r.ret, id), LAMBDA idx :
         Out(r.disk, Ok(IF idx # 0 THEN Some(r.ret[idx])
                        ELSE IF r.ret = <<>> THEN None
                        ELSE Some(r.ret[1])))))

get_by_id(d, id) ==
    Bind(load_all(d), LAMBDA r :
    IF r.exc # "none" THEN r
    ELSE Bind(existing_idx(r.ret, id), LAMBDA idx :
         Out(r.disk, Ok(IF idx = 0 THEN None ELSE Some(r.ret[idx])))))

get_all_ids(d) ==
    Bind(load_all(d), LAMBDA r :
    IF r.exc # "none" THEN r
    ELSE Out(r.disk, Ok({r.ret[i].id : i \in 1..Len(r.ret)})))

---------------------------------------------------------------------------
(* src/cli.py.  A command takes the disk and its arguments and yields the  *)
(* disk it leaves with what it reported: the outcome ("ok", the reason of  *)
(* a SystemExit(1), or the name of an exception no handler caught), the    *)
(* line a StorageError named, the issue id it was about and the issues     *)
(* and ids it printed.                                                     *)

Report(d, outcome, line, id, issues, ids) ==
    [disk |-> d, outcome |-> outcome, line |-> line, id |-> id,
     issues |-> issues, ids |-> ids]

\* except StorageError: print and SystemExit(1); anything else escapes.
Fail(r, id) ==
    Report(r.disk,
           IF r.exc = "StorageError" THEN "storage_error" ELSE r.exc,
           r.line, id, <<>>, <<>>)

\* [f(x) for x in seq]
Map(seq, f(_)) == [i \in 1..Len(seq) |-> f(seq[i])]

IdOf(i) == i.id

\* list.remove(x): the first occurrence only.
RECURSIVE list_remove(_, _)
list_remove(seq, x) ==
    IF seq = <<>> THEN <<>>
    ELSE IF Head(seq) = x THEN Tail(seq)
    ELSE <<Head(seq)>> \o list_remove(Tail(seq), x)

\* create gone wrong: the blockers are not checked against the store.
create_unvalidated(d, title, description, blocked_by, now) ==
    Bind(get_all_ids(d), LAMBDA r1 :
    IF r1.exc # "none" THEN Fail(r1, 0)
    ELSE Bind(get_next_id(r1.disk), LAMBDA r2 :
    IF r2.exc # "none" THEN Fail(r2, 0)
    ELSE Bind(Issue_create(r2.ret, title, description, blocked_by, now),
              LAMBDA issue :
         Bind(save_issue(r2.disk, issue), LAMBDA r3 :
    IF r3.exc # "none" THEN Fail(r3, issue.id)
    ELSE Report(r3.disk, "ok", 0, issue.id, <<issue>>, <<>>)))))

\* create gone wrong: the id is allocated before the blockers are checked.
create_allocating_first(d, title, description, blocked_by, now) ==
    Bind(get_all_ids(d), LAMBDA r1 :
    IF r1.exc # "none" THEN Fail(r1, 0)
    ELSE Bind(get_next_id(r1.disk), LAMBDA r2 :
    IF r2.exc # "none" THEN Fail(r2, 0)
    ELSE IF blocked_by # <<>> /\ SetOf(blocked_by) \ r1.ret # {}
    THEN Report(r2.disk, "no_such_blocker", 0, 0, <<>>, <<>>)
    ELSE Bind(Issue_create(r2.ret, title, description, blocked_by, now),
              LAMBDA issue :
         Bind(save_issue(r2.disk, issue), LAMBDA r3 :
    IF r3.exc # "none" THEN Fail(r3, issue.id)
    ELSE Report(r3.disk, "ok", 0, issue.id, <<issue>>, <<>>)))))

create(d, title, description, blocked_by, now) ==
    Bind(get_all_ids(d), LAMBDA r1 :
    IF r1.exc # "none" THEN Fail(r1, 0)
    ELSE IF blocked_by # <<>> /\ SetOf(blocked_by) \ r1.ret # {}
    THEN Report(r1.disk, "no_such_blocker", 0, 0, <<>>, <<>>)
    ELSE Bind(get_next_id(r1.disk), LAMBDA r2 :
    IF r2.exc # "none" THEN Fail(r2, 0)
    ELSE Bind(Issue_create(r2.ret, title, description, blocked_by, now),
              LAMBDA issue :
         Bind(save_issue(r2.disk, issue), LAMBDA r3 :
    IF r3.exc # "none" THEN Fail(r3, issue.id)
    ELSE Report(r3.disk, "ok", 0, issue.id, <<issue>>, <<>>)))))

\* The --add-blocker loop gone wrong: the issue itself passes as a blocker.
RECURSIVE add_blockers_allowing_self(_, _, _, _, _)
add_blockers_allowing_self(blocked_by, add_blocker, k, id, existing_ids) ==
    IF k > Len(add_blocker) THEN [err |-> "none", blocked_by |-> blocked_by]
    ELSE IF add_blocker[k] \notin existing_ids
    THEN [err |-> "no_such_blocker", blocked_by |-> blocked_by]
    ELSE add_blockers_allowing_self(
            IF add_blocker[k] \notin SetOf(blocked_by)
            THEN Append(blocked_by, add_blocker[k]) ELSE blocked_by,
            add_blocker, k + 1, id, existing_ids)

\* The --add-blocker loop from the k-th blocker on: the first blocker that
\* does not exist or is the issue itself ends the command.
RECURSIVE add_blockers(_, _, _, _, _)
add_blockers(blocked_by, add_blocker, k, id, existing_ids) ==
    IF k > Len(add_blocker) THEN [err |-> "none", blocked_by |-> blocked_by]
    ELSE IF add_blocker[k] \notin existing_ids
    THEN [err |-> "no_such_blocker", blocked_by |-> blocked_by]
    ELSE IF add_blocker[k] = id
    THEN [err |-> "self_block", blocked_by |-> blocked_by]
    ELSE add_blockers(IF add_blocker[k] \notin SetOf(blocked_by)
                      THEN Append(blocked_by, add_blocker[k]) ELSE blocked_by,
                      add_blocker, k + 1, id, existing_ids)

\* The --remove-blocker loop.
RECURSIVE remove_blockers(_, _, _)
remove_blockers(blocked_by, remove_blocker, k) ==
    IF k > Len(remove_blocker) THEN blocked_by
    ELSE remove_blockers(
            IF remove_blocker[k] \in SetOf(blocked_by)
            THEN list_remove(blocked_by, remove_blocker[k]) ELSE blocked_by,
            remove_blocker, k + 1)

\* update gone wrong: the edit stamps created_at as well.
changed_issue_stamping_created(issue, status, description, blocked_by, now) ==
    [issue EXCEPT
       !.status = IF status # None THEN Status(JStr(status[1])).ret ELSE @,
       !.description = IF description # None THEN description ELSE @,
       !.blocked_by = blocked_by,
       !.created_at = now,
       !.updated_at = now]

\* The issue as update leaves it in memory: the fields given, the blockers
\* as the two loops left them, updated_at now.
changed_issue(issue, status, description, blocked_by, now) ==
    [issue EXCEPT
       !.status = IF status # None THEN Status(JStr(status[1])).ret ELSE @,
       !.description = IF description # None THEN description ELSE @,
       !.blocked_by = blocked_by,
       !.updated_at = now]

\* status and description are optional: None when the option is not given.
update(d, id, status, description, add_blocker, remove_blocker, now) ==
    Bind(get_by_id(d, id), LAMBDA r1 :
    IF r1.exc # "none" THEN Fail(r1, id)
    ELSE IF r1.ret = None THEN Report(r1.disk, "not_found", 0, id, <<>>, <<>>)
    ELSE IF status = None /\ description = None
            /\ add_blocker = <<>> /\ remove_blocker = <<>>
    THEN Report(r1.disk, "no_updates", 0, id, <<>>, <<>>)
    ELSE Bind(get_all_ids(r1.disk), LAMBDA r2 :
    IF r2.exc # "none" THEN Fail(r2, id)
    ELSE Bind(add_blockers(r1.ret[1].blocked_by, add_blocker, 1, id, r2.ret),
              LAMBDA added :
    IF added.err # "none" THEN Report(r2.disk, added.err, 0, id, <<>>, <<>>)
    ELSE Bind(changed_issue(r1.ret[1], status, description,
                            remove_blockers(added.blocked_by,
                                            remove_blocker, 1),
                            now),
              LAMBDA issue :
         Bind(save_issue(r2.disk, issue), LAMBDA r3 :
    IF r3.exc # "none" THEN Fail(r3, id)
    ELSE Report(r3.disk, "ok", 0, id, <<issue>>, <<>>))))))

\* The ready filter gone wrong: a blocker counts unless it is an issue
\* that is not done, so a blocker the collection lacks counts as done.
ready_of_missing_satisfied(candidates, all_issues) ==
    Bind({all_issues[i].id :
             i \in {k \in 1..Len(all_issues) : all_issues[k].status # DONE}},
         LAMBDA pending_ids :
            SelectSeq(candidates,
                      LAMBDA i : /\ i.status = OPEN
                                 /\ \A k \in 1..Len(i.blocked_by) :
                                       i.blocked_by[k] \notin pending_ids))

\* The issues a collection holds as ready: open, every blocker done.
ready_of(candidates, all_issues) ==
    Bind({all_issues[i].id :
             i \in {k \in 1..Len(all_issues) : all_issues[k].status = DONE}},
         LAMBDA done_ids :
            SelectSeq(candidates,
                      LAMBDA i : /\ i.status = OPEN
                                 /\ \A k \in 1..Len(i.blocked_by) :
                                       i.blocked_by[k] \in done_ids))

\* [i for i in issues if id in i.blocked_by]
blocked_by_id(issues, id) ==
    SelectSeq(issues, LAMBDA i : id \in SetOf(i.blocked_by))

\* done gone wrong: the newly ready issues are looked for in the issues as
\* they were loaded before the issue was saved as done.
done_from_stale_load(d, id, now) ==
    Bind(get_by_id(d, id), LAMBDA r1 :
    IF r1.exc # "none" THEN Fail(r1, id)
    ELSE IF r1.ret = None THEN Report(r1.disk, "not_found", 0, id, <<>>, <<>>)
    ELSE IF r1.ret[1].status = DONE
    THEN Report(r1.disk, "already_done", 0, id, <<>>, <<>>)
    ELSE Bind(load_all(r1.disk), LAMBDA r2 :
    IF r2.exc # "none" THEN Fail(r2, id)
    ELSE Bind(blocked_by_id(r2.ret, id), LAMBDA blocked_issues :
         Bind(save_issue(r2.disk, [r1.ret[1] EXCEPT !.status = DONE,
                                                    !.updated_at = now]),
              LAMBDA r3 :
    IF r3.exc # "none" THEN Fail(r3, id)
    ELSE IF blocked_issues = <<>>
    THEN Report(r3.disk, "ok", 0, id, <<>>, <<>>)
    ELSE Report(r3.disk, "ok", 0, id, ready_of(blocked_issues, r2.ret),
                Map(blocked_issues, IdOf))))))

\* Reports the issues newly ready (issues) and those it was blocking (ids).
done(d, id, now) ==
    Bind(get_by_id(d, id), LAMBDA r1 :
    IF r1.exc # "none" THEN Fail(r1, id)
    ELSE IF r1.ret = None THEN Report(r1.disk, "not_found", 0, id, <<>>, <<>>)
    ELSE IF r1.ret[1].status = DONE
    THEN Report(r1.disk, "already_done", 0, id, <<>>, <<>>)
    ELSE Bind(load_all(r1.disk), LAMBDA r2 :
    IF r2.exc # "none" THEN Fail(r2, id)
    ELSE Bind(blocked_by_id(r2.ret, id), LAMBDA blocked_issues :
         Bind(save_issue(r2.disk, [r1.ret[1] EXCEPT !.status = DONE,
                                                    !.updated_at = now]),
              LAMBDA r3 :
    IF r3.exc # "none" THEN Fail(r3, id)
    ELSE IF blocked_issues = <<>>
    THEN Report(r3.disk, "ok", 0, id, <<>>, <<>>)
    ELSE Bind(load_all(r3.disk), LAMBDA r4 :
    IF r4.exc # "none" THEN Fail(r4, id)
    ELSE Report(r4.disk, "ok", 0, id, ready_of(blocked_issues, r4.ret),
                Map(blocked_issues, IdOf)))))))

ready(d) ==
    Bind(load_all(d), LAMBDA r :
    IF r.exc # "none" THEN Fail(r, 0)
    ELSE Report(r.disk, "ok", 0, 0, ready_of(r.ret, r.ret), <<>>))

\* list gone wrong: the status given is not filtered by.
list_issues_unfiltered(d, status) ==
    Bind(load_all(d), LAMBDA r :
    IF r.exc # "none" THEN Fail(r, 0)
    ELSE Report(r.disk, "ok", 0, 0, r.ret, <<>>))

\* status is optional: None lists every issue.
list_issues(d, status) ==
    Bind(load_all(d), LAMBDA r :
    IF r.exc # "none" THEN Fail(r, 0)
    ELSE Report(r.disk, "ok", 0, 0,
                IF status # None
                THEN SelectSeq(r.ret,
                               LAMBDA i :
                                  i.status = Status(JStr(status[1])).ret)
                ELSE r.ret,
                <<>>))

\* Reports the issue (issues) and the ids of those it blocks (ids).
show(d, id) ==
    Bind(get_by_id(d, id), LAMBDA r1 :
    IF r1.exc # "none" THEN Fail(r1, id)
    ELSE IF r1.ret = None THEN Report(r1.disk, "not_found", 0, id, <<>>, <<>>)
    ELSE Bind(load_all(r1.disk), LAMBDA r2 :
    IF r2.exc # "none" THEN Fail(r2, id)
    ELSE Report(r2.disk, "ok", 0, id, r1.ret,
                Map(blocked_by_id(r2.ret, id), IdOf))))

---------------------------------------------------------------------------
(* The state machine.                                                      *)

CurDisk == Disk(root, issuesFile, metaFile)

\* What get_next_id would return on disk d, 0 when it would raise.
Counter(d) ==
    Bind(get_next_id(d), LAMBDA r : IF r.exc = "none" THEN r.ret ELSE 0)

\* The inputs the commands are given.
Titles == {"t"}
Descriptions == {"d"}
OptDescriptions == {None} \cup {Some(x) : x \in Descriptions}
OptStatusValues == {None} \cup {Some(StatusValue(m)) : m \in StatusMembers}
\* Ids a command may name: every id the store can hold and one it cannot.
ArgIds == 1..(MaxId + 1)
Tuples(n) == UNION {[1..k -> ArgIds] : k \in 0..n}
BlockerTuples == Tuples(MaxBlockers)

\* The options update is run with, <<status, description, add_blocker,
\* remove_blocker>>: every status and description without blockers, and
\* every choice of at most MaxBlockers blockers to add and remove, alone
\* and beside a valid status.
UpdateOptions ==
    {<<s, d, <<>>, <<>>>> : s \in OptStatusValues, d \in OptDescriptions}
    \cup {o \in {<<s, None, a, r>> :
                    s \in {None, Some(StatusValue(IN_PROGRESS))},
                    a \in BlockerTuples, r \in Tuples(1)} :
             Len(o[3]) + Len(o[4]) <= MaxBlockers}

\* The issues save_issue is called with directly.
SavedIssues ==
    {Issue(id, "t", Some("d"), s, 1, MaxTime, <<>>) :
        id \in ArgIds, s \in {OPEN, DONE}}

NoReport ==
    [cmd |-> "none", outcome |-> "none", line |-> 0, id |-> 0,
     issues |-> <<>>, ids |-> <<>>, input |-> "plain", args |-> <<>>]

\* The processes that share the store.
Procs == {1, 2}

\* A process in no method call: pc is where it stands ("idle", "loaded"
\* after save_issue's load_all, "read" after get_next_id's _read_meta),
\* issue the argument of its save_issue, loaded and meta what it read, ret
\* what its last get_next_id returned; ops counts its calls, writes its
\* writes of the log, and seen holds the writes of each process at the
\* time of its last load.
NoCall ==
    [pc |-> "idle", issue |-> None, loaded |-> <<>>, meta |-> JNull,
     ret |-> 0, ops |-> 0, writes |-> 0, seen |-> [q \in Procs |-> 0]]
NoCalls == [p \in Procs |-> NoCall]

\* An operation may run while the budget lasts; allocating an id, in a run
\* of any length, while the counter has not passed MaxId.
MayRun == IF left = None THEN TRUE ELSE left[1] > 0
MayAllocate == IF left = None THEN Counter(CurDisk) <= MaxId ELSE TRUE

\* The ids of the issues the store on disk d holds, none when it is
\* unreadable.
StoredIds(d) ==
    Bind(load_all(d),
         LAMBDA r : IF r.exc = "none" THEN {r.ret[i].id : i \in 1..Len(r.ret)}
                    ELSE {})

\* The report remembers of the arguments: of a successful update the
\* blockers it was to remove, of list the status it was to filter by.
\* What is to be said of the input of an operation: "again" when it repeats
\* the operation before it, arguments included; "refusable" when the
\* command has to refuse it; "plain" otherwise.
\* create has to refuse a blocker that is no issue of the store.
CreateInput(blocked_by, ids) ==
    IF SetOf(blocked_by) \ ids # {} THEN "refusable" ELSE "plain"

\* update has to refuse options that change nothing, a blocker to add that
\* is no issue of the store, and the issue itself as a blocker to add.
UpdateInput(id, o, ids) ==
    IF \/ o = <<None, None, <<>>, <<>>>>
       \/ \E k \in 1..Len(o[3]) : o[3][k] \notin ids \/ o[3][k] = id
    THEN "refusable" ELSE "plain"

\* The operation cmd, given input, ended as res (a Report) after n
\* get_next_id calls; args are the arguments to remember it by.
Finish(cmd, res, n, input, args) ==
    /\ MayRun
    /\ root' = res.disk.root
    /\ issuesFile' = res.disk.issues
    /\ metaFile' = res.disk.meta
    /\ calls' = calls + n
    /\ left' = IF left = None THEN None ELSE Some(left[1] - 1)
    /\ last' = [cmd |-> cmd, outcome |-> res.outcome, line |-> res.line,
                id |-> res.id, issues |-> res.issues, ids |-> res.ids,
                input |-> input, args |-> args]
    /\ UNCHANGED <<clock, procs>>

\* A direct call of a store method: the outcome is "ok" or the exception.
StoreReport(r, id, issues) ==
    Report(r.disk, IF r.exc = "none" THEN "ok" ELSE r.exc, r.line,
           id, issues, <<>>)

\* Time passes.
Tick ==
    /\ clock < MaxTime
    /\ clock' = clock + 1
    /\ UNCHANGED <<root, issuesFile, metaFile, calls, left, last, procs>>

GetNextId ==
    /\ MayAllocate
    /\ \E r \in {get_next_id(CurDisk)} :
          Finish("get_next_id",
                 StoreReport(r, IF r.exc = "none" THEN r.ret ELSE 0, <<>>),
                 IF r.exc = "none" THEN 1 ELSE 0, "plain", <<>>)

LoadAll ==
    \E r \in {load_all(CurDisk)} :
       Finish("load_all",
              StoreReport(r, 0, IF r.exc = "none" THEN r.ret ELSE <<>>),
              0, "plain", <<>>)

SaveIssue ==
    \E issue \in SavedIssues :
       \E r \in {save_issue(CurDisk, issue)} :
          Finish("save_issue", StoreReport(r, issue.id, <<issue>>), 0,
                 IF last.cmd = "save_issue" /\ last.issues = <<issue>>
                 THEN "again" ELSE "plain", <<>>)

Create ==
    /\ MayRun
    /\ MayAllocate
    /\ \E title \in Titles, description \in OptDescriptions,
          blocked_by \in BlockerTuples, ids \in {StoredIds(CurDisk)} :
          \E res \in {create(CurDisk, title, description, blocked_by, clock)} :
             Finish("create", res, IF res.id # 0 THEN 1 ELSE 0,
                    CreateInput(blocked_by, ids), <<>>)

Update ==
    /\ MayRun
    /\ \E id \in ArgIds, o \in UpdateOptions, ids \in {StoredIds(CurDisk)} :
       \E res \in {update(CurDisk, id, o[1], o[2], o[3], o[4], clock)} :
          Finish("update", res, 0, UpdateInput(id, o, ids),
                 IF res.outcome = "ok" THEN o[4] ELSE <<>>)

Done ==
    /\ MayRun
    /\ \E id \in ArgIds :
       \E res \in {done(CurDisk, id, clock)} :
          Finish("done", res, 0, "plain", <<>>)

Ready ==
    /\ MayRun
    /\ \E res \in {ready(CurDisk)} : Finish("ready", res, 0, "plain", <<>>)

List ==
    /\ MayRun
    /\ \E status \in OptStatusValues :
       \E res \in {list_issues(CurDisk, status)} :
          Finish("list", res, 0, "plain", status)

Show ==
    /\ MayRun
    /\ \E id \in ArgIds :
       \E res \in {show(CurDisk, id)} : Finish("show", res, 0, "plain", <<>>)

---------------------------------------------------------------------------
(* Spec: one process runs create, update and done on a store that starts   *)
(* absent.                                                                 *)

Init ==
    /\ root = FALSE
    /\ issuesFile = <<>>
    /\ metaFile = AbsentFile
    /\ clock = 1
    /\ calls = 0
    /\ left = None
    /\ last = NoReport
    /\ procs = NoCalls

Next == Create \/ Update \/ Done

Spec == Init /\ [][Next]_vars

(* SpecAlloc: ids are allocated on a store that starts absent, by          *)
(* get_next_id called directly and by create, while issues are completed   *)
(* and time passes.                                                        *)

NextAlloc == GetNextId \/ Create \/ Done \/ Tick

SpecAlloc == Init /\ [][NextAlloc]_vars

(* SpecGraph: ready and done run on a store that holds any                 *)
(* log the commands can leave: issues 1..n in any status, each blocked by   *)
(* any set of other ids, ids no issue of the log has included (an update   *)
(* lost to a concurrent writer leaves such a log).                         *)

Record(id, status, blocked_by) ==
    to_dict(Issue(id, "t", None, status, 1, 1, blocked_by))

\* The ascending lists of ids other than id.
BlockerLists(id) ==
    {t \in BlockerTuples :
        /\ id \notin SetOf(t)
        /\ \A i, j \in 1..Len(t) : i < j => t[i] < t[j]}

GraphLogs ==
    UNION {{[i \in 1..n |-> JsonLine(Record(i, s[i], b[i]))] :
               s \in [1..n -> StatusMembers],
               b \in {f \in [1..n -> BlockerTuples] :
                        \A i \in 1..n : f[i] \in BlockerLists(i)}} :
           n \in 0..(MaxId + 1)}

GoodMeta(next_id) ==
    JsonFile(JObj([next_id |-> JInt(next_id), version |-> JStr(VERSION)]))

InitGraph ==
    /\ root = TRUE
    /\ issuesFile \in GraphLogs
    /\ metaFile = GoodMeta(Len(issuesFile) + 1)
    /\ clock = MaxTime
    /\ calls = 0
    /\ left = Some(MaxSteps)
    /\ last = NoReport
    /\ procs = NoCalls

NextGraph == Ready \/ Done

SpecGraph == InitGraph /\ [][NextGraph]_vars

(* SpecDisk: the store methods run on a store whose files hold anything:   *)
(* an issue log of at most MaxLines lines, blank, unparsable, JSON that is *)
(* no record, records that lack a key or hold a value of the wrong kind,   *)
(* and records that are sound; a meta.json that is absent, unparsable, no  *)
(* object, without next_id, with a next_id that is no number, or sound.    *)

Without(obj, key) == JObj([k \in DOMAIN obj.d \ {key} |-> obj.d[k]])
With(obj, key, v) == JObj([obj.d EXCEPT ![key] = v])

SoundLines ==
    {JsonLine(Record(1, OPEN, <<>>)),
     JsonLine(Without(Without(Record(2, DONE, <<>>), "description"),
                      "blocked_by"))}

LineSamples ==
    {BlankLine, GarbageLine,
     JsonLine(JArr(<<JInt(1), JInt(2)>>)),
     JsonLine(Without(Record(1, OPEN, <<>>), "title")),
     JsonLine(With(Record(1, OPEN, <<>>), "status", JStr("closed"))),
     JsonLine(With(Record(1, OPEN, <<>>), "created_at", JStr("yesterday"))),
     JsonLine(With(Record(1, OPEN, <<>>), "created_at", JInt(1))),
     JsonLine(Without(With(Record(1, OPEN, <<>>), "created_at", JInt(1)),
                      "updated_at"))}
    \cup SoundLines

\* No two sound records of a file share an id: the store never writes two.
DiskLogs ==
    {f \in UNION {[1..n -> LineSamples] : n \in 0..MaxLines} :
        \A i, j \in 1..Len(f) :
           i # j /\ f[i] \in SoundLines => f[i] # f[j]}

MetaSamples ==
    {AbsentFile, GarbageFile,
     JsonFile(JArr(<<>>)),
     JsonFile(JObj([version |-> JStr(VERSION)])),
     JsonFile(JObj([next_id |-> JStr("3"), version |-> JStr(VERSION)])),
     GoodMeta(MaxId + 1)}

InitDisk ==
    /\ root = TRUE
    /\ issuesFile \in DiskLogs
    /\ metaFile \in MetaSamples
    /\ clock = 1
    /\ calls = 0
    /\ left = Some(MaxSteps)
    /\ last = NoReport
    /\ procs = NoCalls

NextDisk == LoadAll \/ SaveIssue \/ GetNextId

SpecDisk == InitDisk /\ [][NextDisk]_vars

---------------------------------------------------------------------------
(* What the claims speak of.                                               *)

\* The records of the issue log, as load_all reads them (none when it
\* cannot).
LogOf(d) ==
    Bind(load_all(d), LAMBDA r : IF r.exc = "none" THEN r.ret ELSE <<>>)
Log == LogOf(CurDisk)
LogIds == Map(Log, IdOf)

\* The ids of the records in a file that holds records only.
RecordIds(lines) == [i \in 1..Len(lines) |-> lines[i].v.d["id"].n]

\* What the store persists, an absent store read as first use leaves it:
\* an empty log and next_id = 1.
Persisted ==
    IF root THEN <<issuesFile, metaFile>>
    ELSE <<<<>>, JsonFile(JObj([next_id |-> JInt(1),
                                version |-> JStr(VERSION)]))>>

IsPrefix(s, t) == Len(s) <= Len(t) /\ \A i \in 1..Len(s) : s[i] = t[i]

---------------------------------------------------------------------------
(* C1.  On a fresh store the k-th call of get_next_id returns k, and every *)
(* call leaves the persisted counter advanced by exactly one (at k + 1),   *)
(* whether or not an issue is ever saved under the id.                     *)
C1_KthCallReturnsK ==
    /\ root => metaFile = JsonFile(JObj([next_id |-> JInt(calls + 1),
                                         version |-> JStr(VERSION)]))
    /\ last.cmd = "get_next_id" => last.outcome = "ok" /\ last.id = calls
    /\ last.cmd = "create" /\ last.outcome = "ok" => last.id = calls

\* Two ids were returned and no issue was saved under either.
C1_Witness ==
    /\ calls = 2
    /\ last.cmd = "get_next_id" /\ last.id = 2
    /\ issuesFile = <<>>

\* A step takes the ids of the log from before to after and reports report:
\* the ids are distinct and positive, those of before stay where they are,
\* and a create that succeeded reports an id that before does not hold.
IdsUniqueNeverReused(before, after, report) ==
    /\ \A i, j \in 1..Len(after) : i # j => after[i] # after[j]
    /\ \A i \in 1..Len(after) : after[i] \in Nat \ {0}
    /\ IsPrefix(before, after)
    /\ report.cmd = "create" /\ report.outcome = "ok"
          => \A i \in 1..Len(before) : before[i] # report.id

(* C2.  After any create, update and done commands on a fresh store no two *)
(* records of the log share an id, every id is a positive integer, the ids *)
(* in the log stay where they are, and a create never gives an issue an id *)
(* the log already holds.                                                  *)
C2_IdsUniqueNeverReused ==
    [][IdsUniqueNeverReused(RecordIds(issuesFile), RecordIds(issuesFile'),
                            last')]_vars

\* Two issues are in the log and one of them has been completed.
C2_Witness ==
    /\ LogIds = <<1, 2>>
    /\ last.cmd = "done" /\ last.outcome = "ok"

(* C3.  After any create, update and done commands every id in the         *)
(* blocked_by of a stored issue is the id of an issue in the log.          *)
C3_BlockersExist ==
    \A i \in 1..Len(Log) : SetOf(Log[i].blocked_by) \subseteq SetOf(LogIds)

\* A blocker that is not in the store was refused while the log holds an
\* issue with a blocker.
C3_Witness ==
    /\ last.outcome = "no_such_blocker"
    /\ \E i \in 1..Len(Log) : Log[i].blocked_by # <<>>

(* C4.  After any create, update and done commands no stored issue has its *)
(* own id in its blocked_by.                                               *)
C4_NoSelfBlocking ==
    \A i \in 1..Len(Log) : Log[i].id \notin SetOf(Log[i].blocked_by)

\* update was refused the issue's own id as blocker, on an issue that has
\* another blocker.
C4_Witness ==
    /\ last.cmd = "update" /\ last.outcome = "self_block"
    /\ \E i \in 1..Len(Log) : Log[i].id = last.id /\ Log[i].blocked_by # <<>>

\* Issue i of a collection is ready: open, and every id in its blocked_by
\* is the id of an issue of the collection that is done.
IsReadyIn(i, log) ==
    /\ i.status = OPEN
    /\ \A b \in SetOf(i.blocked_by) :
          \E k \in 1..Len(log) : log[k].id = b /\ log[k].status = DONE

ReadySet(log) == SelectSeq(log, LAMBDA i : IsReadyIn(i, log))

(* C5.  On every loaded collection ready reports exactly the issues that   *)
(* are open and whose every blocker is the id of a done issue of the       *)
(* collection, in load order: a blocker the collection lacks is never      *)
(* satisfied, and no in-progress or done issue is reported.                *)
C5_ReadySetCorrect ==
    last.cmd = "ready" /\ last.outcome = "ok" => last.issues = ReadySet(Log)

\* ready reported an issue and passed over an open issue whose only
\* blocker is not in the collection.
C5_Witness ==
    /\ last.cmd = "ready" /\ last.outcome = "ok"
    /\ last.issues # <<>>
    /\ \E i \in 1..Len(Log) :
          /\ Log[i].status = OPEN
          /\ Len(Log[i].blocked_by) = 1
          /\ Log[i].blocked_by[1] \notin SetOf(LogIds)

\* The issues of the log after that had id in their blocked_by in the log
\* before and are ready in the log after.
NewlyReady(before, after, id) ==
    SelectSeq(after,
              LAMBDA i :
                 /\ \E k \in 1..Len(before) :
                       before[k].id = i.id /\ id \in SetOf(before[k].blocked_by)
                 /\ IsReadyIn(i, after))

(* C6.  When done marks an issue that was not done as done, the newly      *)
(* ready issues it reports are exactly those that had the id in their      *)
(* blocked_by before, are open and have every blocker done in the store    *)
(* after: an issue with another blocker that is not done is not reported.  *)
C6_CascadingUnlock ==
    [][last'.cmd = "done" /\ last'.outcome = "ok"
          => last'.issues = NewlyReady(LogOf(Disk(root, issuesFile, metaFile)),
                                       LogOf(Disk(root', issuesFile', metaFile')),
                                       last'.id)]_vars

\* done unlocked one issue and left another, which it was blocking too,
\* behind a blocker that is not done.
C6_Witness ==
    /\ last.cmd = "done" /\ last.outcome = "ok"
    /\ last.issues # <<>>
    /\ Len(last.ids) > Len(last.issues)
    /\ \E i \in 1..Len(Log) :
          /\ Log[i].id \in SetOf(last.ids)
          /\ Log[i].status = OPEN
          /\ Log[i] \notin SetOf(last.issues)

Rejections == {"no_such_blocker", "self_block", "no_updates"}

(* C7.  A create given a blocker that does not exist, and an update given  *)
(* no field, a blocker that does not exist or the issue's own id as        *)
(* blocker, fails, whatever else it was given, and the issue log and the   *)
(* counter are after it what they were before it, first-use                *)
(* initialisation aside; so they are after every command that ends in one  *)
(* of these refusals.                                                      *)
C7_RejectedPersistsNothing ==
    [][/\ last'.input = "refusable" =>
             last'.outcome \in Rejections \cup {"not_found"}
       /\ last'.input = "refusable" \/ last'.outcome \in Rejections =>
             Persisted' = Persisted]_vars

\* update was refused a blocker that does not exist, on a store that holds
\* two issues.
C7_Witness ==
    /\ last.cmd = "update" /\ last.outcome = "no_such_blocker"
    /\ last.input = "refusable"
    /\ Len(Log) = 2

RequiredKeys == {"id", "title", "status", "created_at", "updated_at"}

\* A line of invalid syntax, or a record that lacks a required key or has
\* a status that is none of the known ones.
Malformed(line) ==
    \/ line.kind = "garbage"
    \/ /\ line.kind = "json"
       /\ line.v.j = "obj"
       /\ \/ RequiredKeys \ DOMAIN line.v.d # {}
          \/ /\ "status" \in DOMAIN line.v.d
             /\ Status(line.v.d["status"]).exc # "none"

\* A line that yields no issue: neither blank nor a record from_dict reads.
Unreadable(line) ==
    \/ line.kind = "garbage"
    \/ line.kind = "json" /\ from_dict(line.v).exc # "none"

\* The number of the first line that yields no issue, blank lines counted.
FirstUnreadable(lines) ==
    CHOOSE n \in 1..Len(lines) :
       /\ Unreadable(lines[n])
       /\ \A k \in 1..(n - 1) : ~Unreadable(lines[k])

(* C8.  When a line of the issue log is of invalid syntax, lacks a         *)
(* required key or has an unknown status, load_all fails with a            *)
(* StorageError that names the number of the line it could not read, blank *)
(* lines counted, and returns no issue; a log of blank lines loads as no   *)
(* issues.                                                                 *)
C8_CorruptedLineNamed ==
    last.cmd = "load_all" =>
       /\ (\E n \in 1..Len(issuesFile) : Malformed(issuesFile[n])) =>
             /\ last.outcome = "StorageError"
             /\ last.line = FirstUnreadable(issuesFile)
             /\ last.issues = <<>>
       /\ (\A n \in 1..Len(issuesFile) : issuesFile[n] = BlankLine) =>
             last.outcome = "ok" /\ last.issues = <<>>

(* C9.  A store method that fails on what the files hold fails with a      *)
(* StorageError and with no other exception, whatever the lines of the     *)
(* issue log and whatever meta.json holds or lacks.                        *)
C9_OnlyStorageError ==
    last.cmd \in {"load_all", "save_issue", "get_next_id"} =>
       last.outcome \in {"ok", "StorageError"}

\* save_issue(x) left the log as loaded and after it holds howMany entries
\* with the id of x.
SavedAgain(loaded, after, x, howMany) ==
    /\ after = loaded
    /\ Cardinality({k \in 1..Len(after) : after[k].id = x.id}) = howMany

(* C10.  Saving an issue a second time in a row leaves a log that loads as *)
(* it did after the first save, with exactly one entry of the issue's id.  *)
C10_SaveIdempotent ==
    [][last'.cmd = "save_issue" /\ last'.input = "again"
          /\ last'.outcome = "ok"
          => SavedAgain(LogOf(Disk(root, issuesFile, metaFile)),
                        LogOf(Disk(root', issuesFile', metaFile')),
                        last'.issues[1], 1)]_vars

\* An issue whose id the log held was saved twice, among other issues.
C10_Witness ==
    /\ last.cmd = "save_issue" /\ last.input = "again" /\ last.outcome = "ok"
    /\ Len(Log) = 2
    /\ last.issues[1].id = 1


---------------------------------------------------------------------------
(* Duplicate blockers.                                                     *)

HasDuplicates(seq) == \E i, j \in 1..Len(seq) : i < j /\ seq[i] = seq[j]

\* C11: no stored issue names the same blocker twice, and after a
\* successful update the issue names none of the blockers the update was
\* to remove.
C11_NoDuplicateBlockers ==
    /\ \A i \in 1..Len(Log) : ~HasDuplicates(Log[i].blocked_by)
    /\ last.cmd = "update" /\ last.outcome = "ok" =>
          \A i \in 1..Len(Log), k \in 1..Len(last.args) :
             Log[i].id = last.id =>
                last.args[k] \notin SetOf(Log[i].blocked_by)

---------------------------------------------------------------------------
(* SpecEdit: one command reads or edits a store that holds issues, at a    *)
(* time later than the one they were created at.                           *)

GetById ==
    /\ MayRun
    /\ \E id \in ArgIds :
       \E r \in {get_by_id(CurDisk, id)} :
          Finish("get_by_id",
                 StoreReport(r, id, IF r.exc = "none" THEN r.ret ELSE <<>>),
                 0, "plain", <<>>)

\* The logs of at most MaxId issues.
EditLogs == {lines \in GraphLogs : Len(lines) <= MaxId}

InitEdit ==
    /\ root = TRUE
    /\ issuesFile \in EditLogs
    /\ metaFile = GoodMeta(Len(issuesFile) + 1)
    /\ clock = MaxTime
    /\ calls = 0
    /\ left = Some(1)
    /\ last = NoReport
    /\ procs = NoCalls

NextEdit == Update \/ Done \/ Show \/ List \/ GetById

SpecEdit == InitEdit /\ [][NextEdit]_vars

\* The log after holds the issues of the log before, each with its id,
\* title and created_at, and each but the one of id as it was.
OnlyEdited(before, after, id) ==
    /\ Len(after) = Len(before)
    /\ \A i \in 1..Len(before) :
          /\ after[i].id = before[i].id
          /\ after[i].title = before[i].title
          /\ after[i].created_at = before[i].created_at
          /\ before[i].id # id => after[i] = before[i]

\* C12: a successful update or done changes only the record of the id it
\* names, and of it neither id, title nor created_at; every other record
\* stays as it was and in place, none is removed, and next_id is unchanged.
C12_EditFrame ==
    [][last'.cmd \in {"update", "done"} /\ last'.outcome = "ok"
          => /\ OnlyEdited(LogOf(Disk(root, issuesFile, metaFile)),
                           LogOf(Disk(root', issuesFile', metaFile')),
                           last'.id)
             /\ metaFile' = metaFile]_vars

\* An update has changed status, blockers and updated_at of one issue of a
\* log that holds others.
C12_Witness ==
    /\ last.cmd = "update" /\ last.outcome = "ok"
    /\ Len(Log) > 1
    /\ \E i \in 1..Len(Log) :
          /\ Log[i].id = last.id
          /\ Log[i].status = IN_PROGRESS
          /\ Log[i].blocked_by # <<>>
          /\ Log[i].updated_at = MaxTime
          /\ Log[i].created_at < MaxTime

---------------------------------------------------------------------------
(* SpecIssue: the methods of Issue, called on issues and records of every  *)
(* shape.                                                                  *)

\* The issues of every id, description, status, time and blocker list.
ValidIssues ==
    {Issue(id, "t", d, s, c, u, b) :
        id \in ArgIds, d \in OptDescriptions, s \in StatusMembers,
        c \in Times, u \in Times, b \in BlockerTuples}

\* The sets of existing ids, as ascending lists.
IdLists ==
    {t \in Tuples(MaxId + 1) :
        \A i, j \in 1..Len(t) : i < j => t[i] < t[j]}

\* The outcome of a method call that yields an issue: the issue it was
\* given or made of, then the issue yielded.
IssueReport(r, issue) ==
    Report(CurDisk, IF r.exc = "none" THEN "ok" ELSE r.exc, 0, issue.id,
           IF r.exc = "none" THEN <<issue, r.ret>> ELSE <<issue>>, <<>>)

Validate ==
    /\ MayRun
    /\ \E issue \in {i \in ValidIssues : i.status = OPEN /\ i.description = None
                                      /\ i.created_at = i.updated_at},
       existing_ids \in IdLists :
       \E r \in {validate_blocked_by(issue, SetOf(existing_ids))} :
          Finish("validate_blocked_by", IssueReport(r, issue), 0, "plain",
                 existing_ids)

\* C13: validate_blocked_by fails exactly when a blocker is absent from
\* existing_ids or is the issue's own id, succeeds otherwise, and leaves
\* the issue as it was.
C13_ValidateExact ==
    last.cmd = "validate_blocked_by" =>
       /\ last.outcome \in {"ok", "ValueError"}
       /\ last.outcome = "ValueError" <=>
             \/ \E k \in 1..Len(last.issues[1].blocked_by) :
                   last.issues[1].blocked_by[k] \notin SetOf(last.args)
             \/ \E k \in 1..Len(last.issues[1].blocked_by) :
                   last.issues[1].blocked_by[k] = last.issues[1].id
       /\ last.outcome = "ok" => last.issues[2] = last.issues[1]

\* An issue whose blockers all exist, its own id among them, was refused.
C13_Witness ==
    /\ last.cmd = "validate_blocked_by"
    /\ last.outcome = "ValueError"
    /\ SetOf(last.issues[1].blocked_by) \subseteq SetOf(last.args)
    /\ last.issues[1].id \in SetOf(last.issues[1].blocked_by)

RoundTrip ==
    /\ MayRun
    /\ \E issue \in ValidIssues :
       \E r \in {from_dict(to_dict(issue))} :
          Finish("round_trip", IssueReport(r, issue), 0, "plain", <<>>)

\* The optional keys of a record, and the choices of keys to leave out.
OptionalKeys == {<<"description">>, <<"blocked_by">>,
                 <<"description", "blocked_by">>}

RECURSIVE WithoutKeys(_, _)
WithoutKeys(obj, keys) ==
    IF keys = <<>> THEN obj
    ELSE WithoutKeys(Without(obj, Head(keys)), Tail(keys))

\* from_dict of a record that lacks some of the optional keys.
FromDict ==
    /\ MayRun
    /\ \E issue \in ValidIssues, keys \in OptionalKeys :
       \E r \in {from_dict(WithoutKeys(to_dict(issue), keys))} :
          Finish("from_dict", IssueReport(r, issue), 0, "plain", keys)

NextIssue == Validate \/ RoundTrip \/ FromDict

\* No store is there; one method is called.
InitIssue ==
    /\ root = FALSE
    /\ issuesFile = <<>>
    /\ metaFile = AbsentFile
    /\ clock = 1
    /\ calls = 0
    /\ left = Some(1)
    /\ last = NoReport
    /\ procs = NoCalls

SpecIssue == InitIssue /\ [][NextIssue]_vars

\* C14: from_dict(to_dict(issue)) is the issue, whatever its status,
\* description and blockers; from_dict of a record without description
\* yields no description, of a record without blocked_by no blockers, and
\* every other field as the record has it.
C14_RoundTrip ==
    /\ last.cmd = "round_trip" =>
          last.outcome = "ok" /\ last.issues[2] = last.issues[1]
    /\ last.cmd = "from_dict" =>
          /\ last.outcome = "ok"
          /\ last.issues[2] =
                [last.issues[1] EXCEPT
                   !.description =
                      IF "description" \in SetOf(last.args) THEN None ELSE @,
                   !.blocked_by =
                      IF "blocked_by" \in SetOf(last.args) THEN <<>> ELSE @]

\* A done issue with a description, MaxBlockers blockers and two different
\* times came back from its record.
C14_Witness ==
    /\ last.cmd = "round_trip"
    /\ last.outcome = "ok"
    /\ last.issues[1].status = DONE
    /\ last.issues[1].description # None
    /\ Len(last.issues[1].blocked_by) = MaxBlockers
    /\ last.issues[1].created_at # last.issues[1].updated_at

---------------------------------------------------------------------------
(* SpecInit: the store's methods, init and _ensure_initialized among them, *)
(* called in any order on a store that starts absent.                      *)

\* A method that returns nothing and raises nothing left the disk as d.
Returned(d) == Report(d, "ok", 0, 0, <<>>, <<>>)

StoreInit ==
    \E d \in {init(CurDisk)} : Finish("init", Returned(d), 0, "plain", <<>>)

EnsureInitialized ==
    \E d \in {_ensure_initialized(CurDisk)} :
       Finish("_ensure_initialized", Returned(d), 0, "plain", <<>>)

NextInit == StoreInit \/ EnsureInitialized \/ GetNextId \/ SaveIssue

SpecInit == Init /\ [][NextInit]_vars

\* C15: the first operation on an absent store creates it with an empty log
\* and next_id = 1 (get_next_id then returns 1, save_issue then writes the
\* first record); on a store that is there init and _ensure_initialized
\* change neither the log nor the counter.
C15_InitIdempotent ==
    [][/\ ~root =>
             /\ root'
             /\ last'.cmd \in {"init", "_ensure_initialized"} =>
                   issuesFile' = <<>> /\ metaFile' = GoodMeta(1)
             /\ last'.cmd = "get_next_id" =>
                   issuesFile' = <<>> /\ last'.id = 1
             /\ last'.cmd = "save_issue" =>
                   Len(issuesFile') = 1 /\ metaFile' = GoodMeta(1)
       /\ root /\ last'.cmd \in {"init", "_ensure_initialized"} =>
             issuesFile' = issuesFile /\ metaFile' = metaFile]_vars

\* init was called on a store that holds issues and has given out ids.
C15_Witness ==
    /\ last.cmd = "init"
    /\ Len(issuesFile) > 1
    /\ metaFile = GoodMeta(MaxId + 1)

\* C16: get_by_id returns the stored issue of the id when the log holds
\* one and None otherwise; show, update and done of an id the log does not
\* hold report not-found and leave the log and the counter as they were.
C16_NotFound ==
    [][/\ last'.cmd = "get_by_id" =>
             /\ last'.outcome = "ok"
             /\ IF last'.id \in StoredIds(Disk(root, issuesFile, metaFile))
                THEN \E i \in 1..Len(LogOf(Disk(root, issuesFile, metaFile))) :
                        /\ LogOf(Disk(root, issuesFile, metaFile))[i].id
                              = last'.id
                        /\ last'.issues
                              = <<LogOf(Disk(root, issuesFile, metaFile))[i]>>
                ELSE last'.issues = <<>>
       /\ /\ last'.cmd \in {"show", "update", "done"}
          /\ last'.id \notin StoredIds(Disk(root, issuesFile, metaFile))
          => /\ last'.outcome = "not_found"
             /\ issuesFile' = issuesFile
             /\ metaFile' = metaFile]_vars

\* update was given options and the id of no issue of a store that holds
\* MaxId issues.
C16_Witness ==
    /\ last.cmd = "update"
    /\ last.outcome = "not_found"
    /\ last.input = "refusable"
    /\ last.id \notin StoredIds(CurDisk)
    /\ Len(Log) = MaxId

---------------------------------------------------------------------------
(* SpecRead: one command reads a store that holds up to MaxId + 1 issues.  *)

InitRead ==
    /\ root = TRUE
    /\ issuesFile \in GraphLogs
    /\ metaFile = GoodMeta(Len(issuesFile) + 1)
    /\ clock = MaxTime
    /\ calls = 0
    /\ left = Some(1)
    /\ last = NoReport
    /\ procs = NoCalls

NextRead == List \/ Show

SpecRead == InitRead /\ [][NextRead]_vars

\* listed holds exactly the issues of all with the status given (every
\* issue when none is given), in the order of all.
ListedOf(listed, all, status) ==
    \E f \in [1..Len(listed) -> 1..Len(all)] :
       /\ \A i, j \in 1..Len(listed) : i < j => f[i] < f[j]
       /\ \A i \in 1..Len(listed) : listed[i] = all[f[i]]
       /\ {f[i] : i \in 1..Len(listed)}
             = {k \in 1..Len(all) :
                   status = None \/ StatusValue(all[k].status) = status[1]}

\* C17: list with a status reports exactly the stored issues of that
\* status in load order, and list without one every stored issue in load
\* order.
C17_ListFilter ==
    [][last'.cmd = "list" =>
          /\ last'.outcome = "ok"
          /\ ListedOf(last'.issues, LogOf(Disk(root, issuesFile, metaFile)),
                      last'.args)]_vars

\* list --status open reported the first and the last of three issues, the
\* one between them not being open.
C17_Witness ==
    /\ last.cmd = "list"
    /\ last.args = Some("open")
    /\ Len(Log) = 3
    /\ Log[2].status # OPEN
    /\ last.issues = <<Log[1], Log[3]>>

---------------------------------------------------------------------------
\* after is before with the entry of the id of x replaced by x where it
\* stood, or with x added at the end when before holds no such entry.
SavedOver(before, after, x) ==
    IF \E i \in 1..Len(before) : before[i].id = x.id
    THEN /\ Len(after) = Len(before)
         /\ \A i \in 1..Len(before) :
               after[i] = IF before[i].id = x.id THEN x ELSE before[i]
    ELSE after = Append(before, x)

\* C18: save_issue(x) on a log that loads rewrites it to the same log with
\* the entry of x's id replaced by x in place, or followed by x when it
\* holds no such entry, and leaves meta.json as it was.
C18_SaveFrame ==
    [][last'.cmd = "save_issue" /\ last'.outcome = "ok"
          => /\ SavedOver(LogOf(Disk(root, issuesFile, metaFile)),
                          LogOf(Disk(root', issuesFile', metaFile')),
                          last'.issues[1])
             /\ metaFile' = metaFile]_vars

\* An issue was saved over the first of two entries, in a state other than
\* the one it had.
C18_Witness ==
    /\ last.cmd = "save_issue" /\ last.input = "plain" /\ last.outcome = "ok"
    /\ Len(Log) = 2
    /\ Log[1] = last.issues[1]
    /\ Log[1].status = DONE
    /\ Log[2].id # Log[1].id

---------------------------------------------------------------------------
(* SpecRace: two processes call save_issue and get_next_id on one store,   *)
(* up to MaxSteps calls each.  A call is two steps, the read of the file   *)
(* and the write of it, and the steps of the two processes interleave.     *)

\* The issues the processes save.
RaceIssues ==
    {Issue(id, "t", None, s, 1, 1, <<>>) : id \in Ids, s \in {OPEN, DONE}}

\* Process p took the step cmd about id, leaving the disk as d and itself
\* as proc.
Step(p, cmd, d, id, proc) ==
    /\ root' = d.root
    /\ issuesFile' = d.issues
    /\ metaFile' = d.meta
    /\ procs' = [procs EXCEPT ![p] = proc]
    /\ last' = [NoReport EXCEPT !.cmd = cmd, !.outcome = "ok", !.id = id,
                                !.args = <<p>>]
    /\ UNCHANGED <<clock, calls, left>>

\* save_issue up to issues = self.load_all().
SaveLoad(p) ==
    /\ procs[p].pc = "idle"
    /\ procs[p].ops < MaxSteps
    /\ \E issue \in RaceIssues :
          \E r \in {load_all(_ensure_initialized(CurDisk))} :
             /\ r.exc = "none"
             /\ Step(p, "load_all", r.disk, issue.id,
                     [procs[p] EXCEPT
                        !.pc = "loaded", !.issue = Some(issue),
                        !.loaded = r.ret,
                        !.seen = [q \in Procs |-> procs[q].writes]])

\* save_issue from the search for the id to self._write_all(issues).
SaveWrite(p) ==
    /\ procs[p].pc = "loaded"
    /\ \E d \in {_write_all(CurDisk,
                            put_issue(procs[p].loaded, procs[p].issue[1]))} :
          Step(p, "_write_all", d, procs[p].issue[1].id,
               [procs[p] EXCEPT !.pc = "idle", !.ops = @ + 1,
                                !.writes = @ + 1])

\* get_next_id up to meta = self._read_meta().
NextIdRead(p) ==
    /\ procs[p].pc = "idle"
    /\ procs[p].ops < MaxSteps
    /\ \E r \in {_read_meta(CurDisk)} :
          /\ r.exc = "none"
          /\ Step(p, "_read_meta", r.disk, 0,
                  [procs[p] EXCEPT !.pc = "read", !.meta = r.ret])

\* get_next_id from next_id = meta["next_id"] to its return.
NextIdWrite(p) ==
    /\ procs[p].pc = "read"
    /\ \E next_id \in {procs[p].meta.d["next_id"].n} :
          Step(p, "_write_meta",
               _write_meta(CurDisk,
                           JObj([procs[p].meta.d EXCEPT
                                    !["next_id"] = JInt(next_id + 1)])),
               next_id,
               [procs[p] EXCEPT !.pc = "idle", !.ops = @ + 1,
                                !.ret = next_id])

NextRace ==
    \E p \in Procs :
       SaveLoad(p) \/ SaveWrite(p) \/ NextIdRead(p) \/ NextIdWrite(p)

SpecRace == Init /\ [][NextRace]_vars

\* C19: with the reads and writes of two processes interleaved, every write
\* of the log leaves exactly what its writer loaded with the writer's issue
\* applied, so an issue another process wrote after that load, and that the
\* writer neither loaded nor saves itself, is in the log no more; and every
\* get_next_id returns the next_id it read and leaves the counter one past
\* it, whatever was written to meta.json in between.
C19_LastWriterWins ==
    [][/\ last'.cmd = "_write_all" =>
             \A p \in Procs :
                last'.args = <<p>> =>
                   /\ SavedOver(procs[p].loaded,
                                LogOf(Disk(root', issuesFile', metaFile')),
                                procs[p].issue[1])
                   /\ \A q \in Procs \ {p} :
                         /\ procs[p].seen[q] < procs[q].writes
                         /\ procs[q].issue # procs[p].issue
                         /\ procs[q].issue[1] \notin SetOf(procs[p].loaded)
                         => procs[q].issue[1] \notin
                               SetOf(LogOf(Disk(root', issuesFile',
                                                metaFile')))
       /\ last'.cmd = "_write_meta" =>
             \A p \in Procs :
                last'.args = <<p>> =>
                   /\ last'.id = procs[p].meta.d["next_id"].n
                   /\ metaFile' = GoodMeta(last'.id + 1)]_vars

\* Both processes were given the same id by get_next_id, and the issue the
\* one saved was lost to the save of the other, which had loaded the log
\* before.
C19_Witness ==
    \E p \in Procs, q \in Procs :
       /\ p # q
       /\ procs[p].ret = procs[q].ret
       /\ procs[p].ret > 0
       /\ last.cmd = "_write_all"
       /\ last.args = <<p>>
       /\ procs[p].seen[q] < procs[q].writes
       /\ procs[q].issue[1] \notin SetOf(Log)
       /\ Len(Log) = 1

---------------------------------------------------------------------------
\* C20: on a store one process has run create, update and done on from its
\* first use, refused creates among them, the persisted next_id is greater
\* than the id of every issue of the log, and the ids of the log increase
\* strictly in load order.
C20_CounterAhead ==
    root =>
       /\ \A i \in 1..Len(Log) : Log[i].id < metaFile.v.d["next_id"].n
       /\ \A i, j \in 1..Len(Log) : i < j => Log[i].id < Log[j].id

\* A create was refused on a store that holds an issue, done since its
\* creation, and has ids left to give.
C20_Witness ==
    /\ last.cmd = "create"
    /\ last.outcome = "no_such_blocker"
    /\ Len(Log) = MaxId - 1
    /\ Log[1].status = DONE
    /\ metaFile = GoodMeta(MaxId)

---------------------------------------------------------------------------
(* SpecBroken: save_issue, create, update and done on a store whose issue  *)
(* log holds a line that load_all cannot read.                             *)

\* The logs with a line that yields no issue.
BrokenLogs ==
    {f \in DiskLogs : \E n \in 1..Len(f) : Unreadable(f[n])}

InitBroken ==
    /\ root = TRUE
    /\ issuesFile \in BrokenLogs
    /\ metaFile = GoodMeta(MaxId + 1)
    /\ clock = MaxTime
    /\ calls = 0
    /\ left = Some(MaxSteps)
    /\ last = NoReport
    /\ procs = NoCalls

NextBroken == SaveIssue \/ Create \/ Update \/ Done

SpecBroken == InitBroken /\ [][NextBroken]_vars

\* C21: on a log with a line load_all fails on, save_issue fails with the
\* StorageError of load_all, which names that line, and leaves the log as
\* it was; create, update and done report the storage error and leave the
\* log and the next_id counter as they were.
C21_BrokenLogUntouched ==
    [][(\E n \in 1..Len(issuesFile) : Unreadable(issuesFile[n])) =>
          /\ last'.cmd = "save_issue" =>
                /\ last'.outcome = "StorageError"
                /\ last'.line = FirstUnreadable(issuesFile)
                /\ issuesFile' = issuesFile
          /\ last'.cmd \in {"create", "update", "done"} =>
                /\ last'.outcome = "storage_error"
                /\ last'.line = FirstUnreadable(issuesFile)
                /\ issuesFile' = issuesFile
                /\ metaFile' = metaFile]_vars

====
